---- MODULE Spec2Model ----
(***************************************************************************)
(* A model of py_bipartite_matching: the enumeration of all perfect and    *)
(* all maximum matchings of a bipartite graph (Uno, ISAAC '97).            *)
(*                                                                         *)
(* A graph is a record [nodes, edges]: nodes maps each vertex to its       *)
(* 'bipartite' attribute (LEFT = top, RIGHT = bottom), edges is a set of   *)
(* pairs <<t, b>> with t a top and b a bottom vertex.  A directed graph is *)
(* a record [nodes, arcs], arcs a set of pairs <<tail, head>>.  A Python   *)
(* dict is the set of its items <<key, value>>, one item per key.          *)
(*                                                                         *)
(* The two generators are run one after the other on the same input graph. *)
(* Each generator frame of the recursion is a record on `stack`; its field *)
(* pos is the place in the frame's code where it is suspended.             *)
(***************************************************************************)
EXTENDS Integers, Sequences, FiniteSets, Bags, TLC

MaxTop == 3
MaxBottom == 3
BottomBase == 10

LEFT == 0
RIGHT == 1

VARIABLES graph, pc, stack, emitted_perfect, emitted_maximum, probe

vars == <<graph, pc, stack, emitted_perfect, emitted_maximum, probe>>

---------------------------------------------------------------------------
(* Python dicts, as sets of items.                                         *)

Keys(d) == {p[1] : p \in d}

Get(d, k) == (CHOOSE p \in d : p[1] = k)[2]

Put(d, k, v) == {p \in d : p[1] # k} \cup {<<k, v>>}

Del(d, k) == {p \in d : p[1] # k}

---------------------------------------------------------------------------
(* The graph helpers (graphs_utils) and the external collaborators.        *)

top_nodes(g) == {v \in DOMAIN g.nodes : g.nodes[v] = LEFT}

bottom_nodes(g) == {v \in DOMAIN g.nodes : g.nodes[v] = RIGHT}

neighbors(g, v) ==
    {e[2] : e \in {x \in g.edges : x[1] = v}} \cup {e[1] : e \in {x \in g.edges : x[2] = v}}

\* A builder that orients the arcs the other way round.
create_directed_matching_graph_reversed(g, tops, matching) ==
    [nodes |-> g.nodes,
     arcs  |-> {IF e[1] \in tops /\ e \in matching THEN <<e[2], e[1]>> ELSE <<e[1], e[2]>>
                : e \in g.edges}]

\* D(G, M): one arc per edge.  The arc of a matched edge leaves its top
\* vertex and the arc of an unmatched edge enters it: the orientation the
\* callers rely on (the path left1 -> right -> left2 with
\* right = matching[left1], and the flip matching_prime[cycle[i]] = cycle[i-1]
\* that must change the matching).
create_directed_matching_graph(g, tops, matching) ==
    [nodes |-> g.nodes,
     arcs  |-> {IF e[1] \in tops /\ e \in matching THEN <<e[1], e[2]>> ELSE <<e[2], e[1]>>
                : e \in g.edges}]

\* The vertices reachable along x[1], a set of arcs, from those of x[2].
Reach[x \in (SUBSET (Int \X Int)) \X (SUBSET Int)] ==
    LET more == {a[2] : a \in {y \in x[1] : y[1] \in x[2]}} \ x[2]
    IN IF more = {} THEN x[2] ELSE Reach[<<x[1], x[2] \cup more>>]

ReachableFrom(arcs, seen) == Reach[<<arcs, seen>>]

\* Keeps the arcs whose two endpoints share a strongly connected component.
strongly_connected_components_decomposition(d) ==
    [nodes |-> d.nodes,
     arcs  |-> {a \in d.arcs : a[1] \in ReachableFrom(d.arcs, {a[2]})}]

\* DiGraph.to_undirected(): an edge for every arc, whatever its direction.
to_undirected(d) ==
    [nodes |-> d.nodes,
     edges |-> {IF d.nodes[a[1]] = LEFT THEN a ELSE <<a[2], a[1]>> : a \in d.arcs}]

\* G with the two vertices of `edge` removed, and every edge at either.
graph_without_nodes_of_edge(g, edge) ==
    [nodes |-> [v \in DOMAIN g.nodes \ {edge[1], edge[2]} |-> g.nodes[v]],
     edges |-> {e \in g.edges : {e[1], e[2]} \cap {edge[1], edge[2]} = {}}]

\* Graph.has_edge(u, v): an undirected edge, named from either end.
has_edge(g, edge) == <<edge[1], edge[2]>> \in g.edges \/ <<edge[2], edge[1]>> \in g.edges

\* G with the one edge removed; the caller must hold has_edge(g, edge).
graph_without_edge(g, edge) ==
    [nodes |-> g.nodes, edges |-> g.edges \ {<<edge[1], edge[2]>>, <<edge[2], edge[1]>>}]

\* The simple directed cycles along x[1], a set of arcs, that begin with
\* the simple path x[2], as vertex lists.
Cycles[x \in (SUBSET (Int \X Int)) \X Seq(Int)] ==
    LET arcs == x[1]
        p == x[2]
        last == p[Len(p)]
        next == {a[2] : a \in {y \in arcs : y[1] = last /\ \A i \in 1..Len(p) : p[i] # y[2]}}
    IN (IF <<last, p[1]>> \in arcs THEN {p} ELSE {})
       \cup UNION {Cycles[<<arcs, Append(p, v)>>] : v \in next}

CyclesThrough(arcs, p) == Cycles[<<arcs, p>>]

\* Every vertex list the cycle finder may return: a simple directed cycle,
\* started anywhere, with an arc of a matched edge on it.  The empty set
\* stands for NetworkXNoCycle.
find_cycle_with_edge_of_matching(d, matching) ==
    {c \in UNION {CyclesThrough(d.arcs, <<v>>) : v \in DOMAIN d.nodes} :
        \E i \in 1..Len(c) : <<c[i], c[(i % Len(c)) + 1]>> \in matching}

IsMatching(s) == \A e \in s, f \in s : e # f => (e[1] # f[1] /\ e[2] # f[2])

\* The matchings of `edges` that match vertices of `tops` only, to vertices
\* outside `used`.
RECURSIVE MatchingsFrom(_, _, _)
MatchingsFrom(tops, edges, used) ==
    IF tops = {} THEN {{}}
    ELSE UNION {MatchingsFrom(tops \ {t}, edges, used) \cup
                UNION {{s \cup {e} : s \in MatchingsFrom(tops \ {t}, edges, used \cup {e[2]})} :
                       e \in {x \in edges : x[1] = t /\ x[2] \notin used}} :
                t \in {CHOOSE x \in tops : TRUE}}

\* All matchings of g, as sets of pairs <<t, b>>.
Matchings(g) == MatchingsFrom({e[1] : e \in g.edges}, g.edges, {})

\* The sets of greatest cardinality among those of S.
LargestOf[S \in SUBSET SUBSET (Int \X Int)] ==
    {s \in S : \A r \in S : Cardinality(r) <= Cardinality(s)}

Largest(S) == LargestOf[S]

Max(S) == CHOOSE n \in S : \A k \in S : k <= n

\* The greatest number of edges of `edges` that match the vertices of `tops`
\* to distinct vertices outside `used`.
RECURSIVE NuFrom(_, _, _)
NuFrom(tops, edges, used) ==
    IF tops = {} THEN 0
    ELSE LET t == CHOOSE x \in tops : TRUE
             free == {e[2] : e \in {x \in edges : x[1] = t /\ x[2] \notin used}}
         IN Max({NuFrom(tops \ {t}, edges, used)}
                \cup {1 + NuFrom(tops \ {t}, edges, used \cup {b}) : b \in free})

\* The maximum matching number of g.
Nu(g) == NuFrom({e[1] : e \in g.edges}, g.edges, {})

MaximumMatchings(g) == Largest(Matchings(g))

\* networkx's maximum_matching: some maximum matching, as a dict with a key
\* for every matched vertex of either side.
maximum_matching(g) == {s \cup {<<e[2], e[1]>> : e \in s} : s \in MaximumMatchings(g)}

---------------------------------------------------------------------------
(* The enumerators' own helpers.                                           *)

\* The restriction left out: the seed keeps the keys of both sides.
RestrictToTop_Unrestricted(g, matching) == matching

\* matching = {k: v for k, v in matching.items() if k in top_nodes(graph)}
RestrictToTop(g, matching) == {p \in matching : p[1] \in top_nodes(g)}

_start_cycle_with_left(g, raw_cycle) ==
    IF g.nodes[raw_cycle[1]] = LEFT
    THEN raw_cycle
    ELSE <<raw_cycle[Len(raw_cycle)]>> \o SubSeq(raw_cycle, 1, Len(raw_cycle) - 1)

\* if matching and len(matching) == size
IsPerfectSeed(matching, size) == matching # {} /\ Cardinality(matching) = size

\* The branching edge taken one place further along the cycle.
CycleEdge_Shifted(cycle) == <<cycle[3], cycle[2]>>

\* edge = tuple(cycle[:2])
CycleEdge(cycle) == <<cycle[1], cycle[2]>>

\* The flip with cycle[i + 1] for cycle[i - 1].
RECURSIVE FlipFrom_Successor(_, _, _)
FlipFrom_Successor(matching_prime, cycle, i) ==
    IF i > Len(cycle)
    THEN matching_prime
    ELSE FlipFrom_Successor(Put(matching_prime, cycle[i], cycle[i + 1]), cycle, i + 2)

\* for i in range(0, len(cycle), 2): matching_prime[cycle[i]] = cycle[i - 1]
\* (the sequence is 1-based here: i runs over 1, 3, ... and cycle[0 - 1] is
\* the last vertex).
RECURSIVE FlipFrom(_, _, _)
FlipFrom(matching_prime, cycle, i) ==
    IF i > Len(cycle)
    THEN matching_prime
    ELSE FlipFrom(Put(matching_prime, cycle[i], cycle[IF i = 1 THEN Len(cycle) ELSE i - 1]),
                  cycle, i + 2)

FlipCycle(matching, cycle) == FlipFrom(matching, cycle, 1)

\* G+(e) built with the helper that removes the edge only.
GraphPlus_EdgeOnly(g, edge) == graph_without_edge(g, edge)

\* graph_plus = graph_without_nodes_of_edge(graph, edge)
GraphPlus(g, edge) == graph_without_nodes_of_edge(g, edge)

\* G-(e) left as the frame's own graph.
GraphMinus_Same(g, edge) == g

\* graph_minus = graph_without_edge(graph, edge)
GraphMinus(g, edge) == graph_without_edge(g, edge)

\* The trimming of a graph before a recursion of the perfect enumerator:
\* build D, drop the arcs that cross components, view the rest undirected.
TrimmedDigraph(g, matching) ==
    strongly_connected_components_decomposition(
        create_directed_matching_graph(g, top_nodes(g), matching))

\* assert len(graph.edges) == len(trimmed.edges)
\* assert len(graph.nodes) == len(trimmed.nodes)
TrimAsserts(d) ==
    /\ Cardinality(to_undirected(d).edges) = Cardinality(d.arcs)
    /\ Cardinality(DOMAIN to_undirected(d).nodes) = Cardinality(DOMAIN d.nodes)

NoDigraph == [nodes |-> <<>>, arcs |-> {}]

\* A generator frame that has not run yet.
Frame(g, matching, d) ==
    [graph |-> g, matching |-> matching, directed_match_graph |-> d, pos |-> "entry",
     cycle |-> <<>>, path |-> <<>>, edge |-> <<>>, matching_prime |-> {}]

Top == stack[Len(stack)]

Pop == SubSeq(stack, 1, Len(stack) - 1)

\* The frame on top suspended at `pos` with its locals, and its child on it.
Call(f, pos, child) == Append(Append(Pop, [f EXCEPT !.pos = pos]), child)

Emit(emitted, matching) == emitted (+) SetToBag({matching})

---------------------------------------------------------------------------
(* The input: any bipartite graph within the bounds, labelled as the tests *)
(* label theirs (tops 0.., bottoms 10..).                                  *)

BipartiteGraph(n, m, e) ==
    [nodes |-> [v \in (0..(n - 1)) \cup (BottomBase..(BottomBase + m - 1))
                   |-> IF v < BottomBase THEN LEFT ELSE RIGHT],
     edges |-> e]

BipartiteGraphs ==
    UNION {{BipartiteGraph(n, m, e) :
              e \in SUBSET ((0..(n - 1)) \X (BottomBase..(BottomBase + m - 1)))} :
           n \in 0..MaxTop, m \in 0..MaxBottom}

Init ==
    /\ graph \in BipartiteGraphs
    /\ pc = "init"
    /\ stack = <<>>
    /\ emitted_perfect = EmptyBag
    /\ emitted_maximum = EmptyBag
    /\ probe = <<>>

---------------------------------------------------------------------------
(* enum_perfect_matchings and _enum_perfect_matchings_iter.                *)

enum_perfect_matchings ==
    /\ pc = "init"
    /\ UNCHANGED <<graph, emitted_maximum, probe>>
    /\ IF Cardinality(top_nodes(graph)) # Cardinality(bottom_nodes(graph))
       THEN /\ pc' = "perfect"
            /\ UNCHANGED <<stack, emitted_perfect>>
       ELSE \E seed \in maximum_matching(graph) :
              LET size == Cardinality(top_nodes(graph))
                  matching == RestrictToTop(graph, seed)
                  trimmed == TrimmedDigraph(graph, matching)
              IN IF IsPerfectSeed(matching, size)
                 THEN /\ emitted_perfect' = Emit(emitted_perfect, matching)
                      /\ IF TrimAsserts(trimmed)
                         THEN /\ stack' = <<Frame(to_undirected(trimmed), matching, NoDigraph)>>
                              /\ pc' = "perfect"
                         ELSE /\ pc' = "AssertionError"
                              /\ UNCHANGED stack
                 ELSE /\ pc' = "perfect"
                      /\ UNCHANGED <<stack, emitted_perfect>>

\* Lines 57-105: from the frame's entry to its first recursive call.
PerfectIterEnter ==
    /\ pc = "perfect"
    /\ stack # <<>>
    /\ Top.pos = "entry"
    /\ UNCHANGED <<graph, emitted_maximum, probe>>
    /\ LET f == Top
           d == create_directed_matching_graph(f.graph, top_nodes(f.graph), f.matching)
           cycles == IF f.graph.edges = {} THEN {}
                     ELSE find_cycle_with_edge_of_matching(d, f.matching)
       IN IF cycles = {}
          THEN /\ stack' = Pop
               /\ UNCHANGED <<pc, emitted_perfect>>
          ELSE \E raw_cycle \in cycles :
                 LET cycle == _start_cycle_with_left(f.graph, raw_cycle)
                     edge == CycleEdge(cycle)
                     matching_prime == FlipCycle(f.matching, cycle)
                     graph_plus == GraphPlus(f.graph, edge)
                     trimmed == TrimmedDigraph(graph_plus, f.matching)
                     me == [f EXCEPT !.directed_match_graph = d, !.cycle = cycle,
                                     !.edge = edge, !.matching_prime = matching_prime]
                 IN IF d.nodes[cycle[1]] # LEFT \/ matching_prime = f.matching
                    THEN /\ pc' = "AssertionError"
                         /\ UNCHANGED <<stack, emitted_perfect>>
                    ELSE /\ emitted_perfect' = Emit(emitted_perfect, matching_prime)
                         /\ IF TrimAsserts(trimmed)
                            THEN /\ stack' = Call(me, "cycle_plus",
                                                  Frame(to_undirected(trimmed), f.matching, NoDigraph))
                                 /\ pc' = pc
                            ELSE /\ pc' = "AssertionError"
                                 /\ stack' = Append(Pop, me)

\* Lines 107-123: after the G+(e) recursion, up to the G-(e) recursion.
PerfectIterMinus ==
    /\ pc = "perfect"
    /\ stack # <<>>
    /\ Top.pos = "cycle_plus"
    /\ UNCHANGED <<graph, emitted_perfect, emitted_maximum, probe>>
    /\ LET f == Top
       IN IF ~has_edge(f.graph, f.edge)
          THEN /\ pc' = "NetworkXError"
               /\ UNCHANGED stack
          ELSE LET graph_minus == GraphMinus(f.graph, f.edge)
                   trimmed == TrimmedDigraph(graph_minus, f.matching_prime)
               IN IF TrimAsserts(trimmed)
                  THEN /\ stack' = Call(f, "minus",
                                        Frame(to_undirected(trimmed), f.matching_prime, NoDigraph))
                       /\ pc' = pc
                  ELSE /\ pc' = "AssertionError"
                       /\ UNCHANGED stack

---------------------------------------------------------------------------
(* enum_maximum_matchings and _enum_maximum_matchings_iter.                *)

\* The search with the test of left2 turned round: a key of matching.
_find_feaseable_two_edge_path_matched(g, matching) ==
    {<<left1, Get(matching, left1), left2>> :
        left1 \in {n \in top_nodes(g) : n \in Keys(matching)
                                        /\ Get(matching, n) \in DOMAIN g.nodes},
        left2 \in DOMAIN g.nodes} \cap
    {<<n[1], n[2], n[3]>> :
        n \in {x \in (DOMAIN g.nodes) \X (DOMAIN g.nodes) \X (DOMAIN g.nodes) :
                 x[3] \in neighbors(g, x[2]) /\ x[3] \in Keys(matching) /\ x[3] # x[1]}}

\* Every [left1, right, left2] the search may return, over the orders in
\* which the graph may list its nodes and a node's neighbours: left1 a top
\* node and a key of matching, right = matching[left1] a node of the graph,
\* left2 a neighbour of right that is not a key of matching.  The empty set
\* stands for None.
_find_feaseable_two_edge_path(g, matching) ==
    {<<left1, Get(matching, left1), left2>> :
        left1 \in {n \in top_nodes(g) : n \in Keys(matching)
                                        /\ Get(matching, n) \in DOMAIN g.nodes},
        left2 \in DOMAIN g.nodes} \cap
    {<<n[1], n[2], n[3]>> :
        n \in {x \in (DOMAIN g.nodes) \X (DOMAIN g.nodes) \X (DOMAIN g.nodes) :
                 x[3] \in neighbors(g, x[2]) /\ x[3] \notin Keys(matching)}}

\* The exchange without the del.
FlipPath_NoDel(matching, path) == Put(matching, path[3], path[2])

\* del matching_prime[path[0]]; matching_prime[path[2]] = path[1]
FlipPath(matching, path) == Put(Del(matching, path[1]), path[3], path[2])

\* The branching edge taken at the other end of the path.
PathEdge_First(path) == <<path[1], path[2]>>

\* edge = (path[2], path[1])
PathEdge(path) == <<path[3], path[2]>>

enum_maximum_matchings ==
    /\ pc = "perfect"
    /\ stack = <<>>
    /\ pc' = "maximum"
    /\ UNCHANGED <<graph, emitted_perfect, probe>>
    /\ \E seed \in maximum_matching(graph) :
         LET matching == RestrictToTop(graph, seed)
         IN IF matching # {}
            THEN /\ emitted_maximum' = Emit(emitted_maximum, matching)
                 /\ stack' = <<Frame(graph, matching, TrimmedDigraph(graph, matching))>>
            ELSE UNCHANGED <<stack, emitted_maximum>>

\* Lines 176-214 and 226-251: from the frame's entry to its first
\* recursive call.
MaximumIterEnter ==
    /\ pc = "maximum"
    /\ stack # <<>>
    /\ Top.pos = "entry"
    /\ UNCHANGED <<graph, emitted_perfect, probe>>
    /\ LET f == Top
           cycles == IF f.graph.edges = {} THEN {}
                     ELSE find_cycle_with_edge_of_matching(f.directed_match_graph, f.matching)
           paths == IF f.graph.edges = {} \/ cycles # {} THEN {}
                    ELSE _find_feaseable_two_edge_path(f.graph, f.matching)
       IN IF cycles # {}
          THEN \E raw_cycle \in cycles :
                 LET cycle == _start_cycle_with_left(f.graph, raw_cycle)
                     edge == CycleEdge(cycle)
                     matching_prime == FlipCycle(f.matching, cycle)
                     graph_plus == GraphPlus(f.graph, edge)
                     me == [f EXCEPT !.cycle = cycle, !.edge = edge,
                                     !.matching_prime = matching_prime]
                 IN IF f.directed_match_graph.nodes[cycle[1]] # LEFT
                       \/ matching_prime = f.matching
                    THEN /\ pc' = "AssertionError"
                         /\ UNCHANGED <<stack, emitted_maximum>>
                    ELSE /\ emitted_maximum' = Emit(emitted_maximum, matching_prime)
                         /\ stack' = Call(me, "cycle_plus",
                                Frame(graph_plus, f.matching,
                                      create_directed_matching_graph(
                                          graph_plus, top_nodes(graph_plus), f.matching)))
                         /\ pc' = pc
          ELSE IF paths # {}
          THEN \E path \in paths :
                 LET matching_prime == FlipPath(f.matching, path)
                     edge == PathEdge(path)
                     graph_plus == GraphPlus(f.graph, edge)
                     me == [f EXCEPT !.path = path, !.edge = edge,
                                     !.matching_prime = matching_prime]
                 IN IF matching_prime = f.matching
                    THEN /\ pc' = "AssertionError"
                         /\ UNCHANGED <<stack, emitted_maximum>>
                    ELSE /\ emitted_maximum' = Emit(emitted_maximum, matching_prime)
                         /\ stack' = Call(me, "path_plus",
                                Frame(graph_plus, matching_prime,
                                      create_directed_matching_graph(
                                          graph_plus, top_nodes(graph_plus), matching_prime)))
                         /\ pc' = pc
          ELSE /\ stack' = Pop
               /\ UNCHANGED <<pc, emitted_maximum>>

\* Lines 216-224 and 253-257: after the G+(e) recursion, up to the G-(e)
\* recursion.
MaximumIterMinus ==
    /\ pc = "maximum"
    /\ stack # <<>>
    /\ Top.pos \in {"cycle_plus", "path_plus"}
    /\ UNCHANGED <<graph, emitted_perfect, emitted_maximum, probe>>
    /\ LET f == Top
           seed == IF f.pos = "cycle_plus" THEN f.matching_prime ELSE f.matching
       IN IF ~has_edge(f.graph, f.edge)
          THEN /\ pc' = "NetworkXError"
               /\ UNCHANGED stack
          ELSE LET graph_minus == GraphMinus(f.graph, f.edge)
               IN /\ stack' = Call(f, "minus",
                         Frame(graph_minus, seed,
                               create_directed_matching_graph(
                                   graph_minus, top_nodes(graph_minus), seed)))
                  /\ pc' = pc

\* test_create_directed_matching_graph, on any matching of the graph, given
\* with top keys only or with the keys of both sides.
ProbeDirectedMatchingGraph ==
    /\ pc = "init"
    /\ pc' = "probed"
    /\ \E m \in Matchings(graph), both \in BOOLEAN :
         LET matching == IF both THEN m \cup {<<e[2], e[1]>> : e \in m} ELSE m
         IN probe' = [matching |-> matching,
                      digraph  |-> create_directed_matching_graph(
                                       graph, top_nodes(graph), matching)]
    /\ UNCHANGED <<graph, stack, emitted_perfect, emitted_maximum>>

\* The frame's last recursive call has returned: so does the frame.
IterReturn ==
    /\ pc \in {"perfect", "maximum"}
    /\ stack # <<>>
    /\ Top.pos = "minus"
    /\ stack' = Pop
    /\ UNCHANGED <<graph, pc, emitted_perfect, emitted_maximum, probe>>

Next ==
    \/ enum_perfect_matchings
    \/ PerfectIterEnter
    \/ PerfectIterMinus
    \/ enum_maximum_matchings
    \/ MaximumIterEnter
    \/ MaximumIterMinus
    \/ IterReturn
    \/ ProbeDirectedMatchingGraph

Spec == Init /\ [][Next]_vars

---------------------------------------------------------------------------
(* What the claims speak of.                                               *)

PerfectMatchings(g) ==
    {s \in Matchings(g) : /\ Cardinality(s) = Cardinality(top_nodes(g))
                          /\ Cardinality(s) = Cardinality(bottom_nodes(g))}

\* The perfect generator is exhausted.
PerfectDone == (pc = "perfect" /\ stack = <<>>) \/ pc = "maximum"

\* Both generators are exhausted.
Done == pc = "maximum" /\ stack = <<>>

Frames == {stack[i] : i \in 1..Len(stack)}

RECURSIVE Factorial(_)
Factorial(n) == IF n = 0 THEN 1 ELSE n * Factorial(n - 1)

IsComplete(g) == g.edges = top_nodes(g) \X bottom_nodes(g)

\* C1: once enum_maximum_matchings is exhausted on a graph with an edge,
\* every maximum matching of the graph has been emitted.
C1_MaximumComplete ==
    (Done /\ graph.edges # {}) => MaximumMatchings(graph) \subseteq BagToSet(emitted_maximum)

\* C2: once enum_perfect_matchings is exhausted on a graph with a vertex,
\* the emitted matchings are exactly the perfect matchings of the graph
\* (none when the sides differ in size or the seed is not perfect).
C2_PerfectExact ==
    (PerfectDone /\ DOMAIN graph.nodes # {})
        => BagToSet(emitted_perfect) = PerfectMatchings(graph)

\* C3: no matching is emitted twice in a run of either enumerator.
C3_NoDuplicates ==
    /\ \A m \in BagToSet(emitted_perfect) : CopiesIn(m, emitted_perfect) = 1
    /\ \A m \in BagToSet(emitted_maximum) : CopiesIn(m, emitted_maximum) = 1

\* C4: every emitted matching is a matching of the input graph; those of
\* enum_maximum_matchings have the maximum cardinality, those of
\* enum_perfect_matchings the cardinality |T| = |B|.
C4_EmittedAreMaximum ==
    /\ \A m \in BagToSet(emitted_maximum) :
          m \subseteq graph.edges /\ IsMatching(m) /\ Cardinality(m) = Nu(graph)
    /\ \A m \in BagToSet(emitted_perfect) :
          /\ m \subseteq graph.edges /\ IsMatching(m)
          /\ Cardinality(m) = Cardinality(top_nodes(graph))
          /\ Cardinality(m) = Cardinality(bottom_nodes(graph))

\* C5: on a graph that has a perfect matching the two enumerators emit the
\* same set of matchings.
C5_PerfectEqualsMaximum ==
    (Done /\ PerfectMatchings(graph) # {})
        => BagToSet(emitted_perfect) = BagToSet(emitted_maximum)

\* C9 as stated: the matching of every frame is a maximum matching of the
\* frame's graph: each of its pairs is an edge of that graph and it has the
\* graph's maximum matching number of pairs.
C9_FrameMatchingIsMaximum ==
    \A f \in Frames :
        f.matching \subseteq f.graph.edges /\ Cardinality(f.matching) = Nu(f.graph)

\* C9, amended: the matching of every frame is a maximum matching of the
\* input graph, and its pairs that are edges of the frame's graph are a
\* maximum matching of the frame's graph.
C9_FrameMatchingRestrictedIsMaximum ==
    \A f \in Frames :
        /\ f.matching \subseteq graph.edges
        /\ IsMatching(f.matching)
        /\ Cardinality(f.matching) = Nu(graph)
        /\ f.graph.edges \subseteq graph.edges
        /\ Cardinality(f.matching \cap f.graph.edges) = Nu(f.graph)

\* C6 as stated: on K_{n,n} enum_perfect_matchings emits n! distinct
\* matchings, for every n; on K_{n,m}, n >= m, enum_maximum_matchings emits
\* n!/(n-m)! distinct matchings when m > 0 and none when m = 0.
CompleteCounts(least) ==
    LET n == Cardinality(top_nodes(graph))
        m == Cardinality(bottom_nodes(graph))
    IN /\ (PerfectDone /\ IsComplete(graph) /\ n = m /\ n >= least)
            => /\ BagCardinality(emitted_perfect) = Factorial(n)
               /\ Cardinality(BagToSet(emitted_perfect)) = Factorial(n)
       /\ (Done /\ IsComplete(graph) /\ n >= m)
            => LET expected == IF m > 0 THEN Factorial(n) \div Factorial(n - m) ELSE 0
               IN /\ BagCardinality(emitted_maximum) = expected
                  /\ Cardinality(BagToSet(emitted_maximum)) = expected

C6_CompleteCountsFromZero == CompleteCounts(0)

\* C6, amended: the same counts, with n >= 1 for K_{n,n} (on the graph with
\* no vertex enum_perfect_matchings emits nothing).
C6_CompleteCounts == CompleteCounts(1)

\* d has the vertices of g and exactly one arc per edge of g: with
\* topToBottomWhenMatched, t -> b for an edge (t, b) of the matching and
\* b -> t for any other; without it, the reverse.
OneArcPerEdge(g, d, matching, topToBottomWhenMatched) ==
    /\ d.nodes = g.nodes
    /\ Cardinality(d.arcs) = Cardinality(g.edges)
    /\ \A e \in g.edges :
          LET down == <<e[1], e[2]>>
              up == <<e[2], e[1]>>
          IN IF (e \in matching) = topToBottomWhenMatched
             THEN down \in d.arcs /\ up \notin d.arcs
             ELSE up \in d.arcs /\ down \notin d.arcs

SymDiff(a, b) == (a \ b) \cup (b \ a)

\* The edges of a cycle that starts at a top vertex, as pairs <<t, b>>.
CycleEdges(c) ==
    {<<c[i], c[i + 1]>> : i \in {j \in 1..Len(c) : j % 2 = 1}}
    \cup {<<c[(i % Len(c)) + 1], c[i]>> : i \in {j \in 1..Len(c) : j % 2 = 0}}

\* In every frame that found a cycle: the cycle starts at a top vertex and
\* alternates sides, its edges leaving a top vertex are matched in M exactly
\* when `leavingTopMatched` and those entering one are matched otherwise,
\* and M' is a matching of the size of M, differs from M and differs from
\* it by the edges of the cycle; no assertion fails.
CycleFlip(leavingTopMatched) ==
    /\ pc # "AssertionError"
    /\ \A f \in Frames :
          f.cycle # <<>> =>
            LET c == f.cycle
                k == Len(c)
            IN /\ k % 2 = 0
               /\ \A i \in 1..k : f.graph.nodes[c[i]] = IF i % 2 = 1 THEN LEFT ELSE RIGHT
               /\ \A i \in 1..k :
                     IF i % 2 = 1
                     THEN (<<c[i], c[i + 1]>> \in f.matching) = leavingTopMatched
                     ELSE (<<c[(i % k) + 1], c[i]>> \in f.matching) = ~leavingTopMatched
               /\ IsMatching(f.matching_prime)
               /\ Keys(f.matching_prime) \subseteq top_nodes(graph)
               /\ Cardinality(f.matching_prime) = Cardinality(f.matching)
               /\ f.matching_prime # f.matching
               /\ SymDiff(f.matching_prime, f.matching) = CycleEdges(c)

\* C8 as stated: the edges (C[2i], C[2i+1]) of the normalized cycle are
\* unmatched in M and the edges (C[2i+1], C[2i+2]) matched.
C8_FlipOfUnmatchedFirst == CycleFlip(FALSE)

\* C8, amended: the edges (C[2i], C[2i+1]) of the normalized cycle are
\* matched in M and the edges (C[2i+1], C[2i+2]) unmatched; M' is a matching
\* of the cardinality of M, differs from M, and M' (+) M = E(C).
C8_FlipOfMatchedFirst == CycleFlip(TRUE)

Emitted == BagCardinality(emitted_perfect) + BagCardinality(emitted_maximum)

\* The frame stops at once: it has no edge, or no cycle and (maximum
\* enumerator) no feasible path either.
Terminal(f) ==
    \/ f.graph.edges = {}
    \/ /\ pc = "perfect"
       /\ find_cycle_with_edge_of_matching(
              create_directed_matching_graph(f.graph, top_nodes(f.graph), f.matching),
              f.matching) = {}
    \/ /\ pc = "maximum"
       /\ find_cycle_with_edge_of_matching(f.directed_match_graph, f.matching) = {}
       /\ _find_feaseable_two_edge_path(f.graph, f.matching) = {}

\* The recursion is never deeper than |E(G)|, every child frame's graph has
\* fewer edges than its parent's, and the branching edge of a frame is an
\* edge of the frame's graph (its removal never fails).
FramesShrink ==
    /\ pc \notin {"NetworkXError", "AssertionError"}
    /\ Len(stack) <= Cardinality(graph.edges)
    /\ \A i \in 2..Len(stack) :
          Cardinality(stack[i].graph.edges) < Cardinality(stack[i - 1].graph.edges)
    /\ \A f \in Frames : f.pos # "entry" => has_edge(f.graph, f.edge)

\* A step of a frame: a frame at its entry either stops, emitting nothing
\* and spawning nothing, or emits one matching and spawns its first child;
\* a frame back from its first child spawns its second and emits nothing;
\* a frame back from its second child returns.
FrameStep ==
    stack # <<>> =>
        LET depth == Len(stack)
        IN CASE Top.pos = "entry" ->
                  IF Terminal(Top)
                  THEN stack' = Pop /\ Emitted' = Emitted
                  ELSE /\ Emitted' = Emitted + 1
                       /\ Len(stack') = depth + 1
                       /\ SubSeq(stack', 1, depth - 1) = Pop
                       /\ stack'[depth].pos \in {"cycle_plus", "path_plus"}
                       /\ stack'[depth + 1].pos = "entry"
             [] Top.pos \in {"cycle_plus", "path_plus"} ->
                  /\ Emitted' = Emitted
                  /\ Len(stack') = depth + 1
                  /\ SubSeq(stack', 1, depth - 1) = Pop
                  /\ stack'[depth].pos = "minus"
                  /\ stack'[depth + 1].pos = "entry"
             [] Top.pos = "minus" ->
                  stack' = Pop /\ Emitted' = Emitted

Terminated == Done \/ pc = "probed"

\* A bound on the steps a frame entered with e edges can still take, its
\* descendants' steps included: one step if it stops at once, and otherwise
\* its three own steps and two children with fewer edges.
RECURSIVE StepsOf(_)
StepsOf(e) == IF e = 0 THEN 1 ELSE 3 + 2 * StepsOf(e - 1)

\* A bound on the steps left to the frames on the stack.
RECURSIVE StepsLeft(_)
StepsLeft(frames) ==
    IF frames = <<>> THEN 0
    ELSE LET f == Head(frames)
             e == Cardinality(f.graph.edges)
         IN StepsLeft(Tail(frames))
            + (CASE f.pos = "entry" -> StepsOf(e)
                 [] f.pos \in {"cycle_plus", "path_plus"} -> 2 + StepsOf(e - 1)
                 [] f.pos = "minus" -> 1)

\* A bound on the steps left to the whole run.
Rank ==
    StepsLeft(stack)
    + (CASE pc = "init" -> 2 + 2 * StepsOf(Cardinality(graph.edges))
         [] pc = "perfect" -> 1 + StepsOf(Cardinality(graph.edges))
         [] OTHER -> 0)

\* C10: every enumeration terminates: frames stop or emit one matching and
\* spawn two children, child graphs have fewer edges, the depth is at most
\* |E(G)|; every step lowers the bound Rank on the steps left, and a run
\* that has not signalled the end of both sequences can take a step.
C10_Terminates ==
    /\ []FramesShrink
    /\ [][FrameStep /\ Rank' < Rank]_vars
    /\ [](Terminated \/ ENABLED Next)

---------------------------------------------------------------------------
(* States in which the claims' cases happen.                               *)

InPlus(f) == f.pos \in {"cycle_plus", "path_plus"}

\* The perfect enumerator has emitted four matchings or more of a graph
\* that is not complete, some found after SCC trimming in child frames.
C2_Witness ==
    /\ pc = "perfect" /\ stack = <<>>
    /\ ~IsComplete(graph)
    /\ Cardinality(BagToSet(emitted_perfect)) >= 4

\* Both enumerators have emitted the six perfect matchings of K_{3,3}.
C3_Witness ==
    /\ Done
    /\ BagCardinality(emitted_perfect) = 6
    /\ BagCardinality(emitted_maximum) = 6

\* A G+ child frame of the maximum enumerator, whose graph has lost both
\* vertices of its parent's branching edge, has emitted a matching.
C4_Witness ==
    /\ pc = "maximum"
    /\ Len(stack) >= 3
    /\ InPlus(stack[1]) /\ InPlus(stack[2])
    /\ stack[1].edge[1] \notin DOMAIN stack[2].graph.nodes
    /\ stack[2].matching_prime \in BagToSet(emitted_maximum)

\* Both enumerators are exhausted on a graph, not complete, with three
\* perfect matchings or more.
C5_Witness ==
    /\ Done
    /\ ~IsComplete(graph)
    /\ Cardinality(PerfectMatchings(graph)) >= 3
    /\ Cardinality(BagToSet(emitted_maximum)) >= 3

\* Both enumerators are exhausted on K_{3,2}: six maximum matchings.
C6_Witness ==
    /\ Done
    /\ IsComplete(graph)
    /\ Cardinality(top_nodes(graph)) = 3
    /\ Cardinality(bottom_nodes(graph)) = 2
    /\ BagCardinality(emitted_maximum) = 6

C8_Witness == \E f \in Frames : Len(f.cycle) = 6

\* A G+ child frame with edges holds a matching with a pair whose vertices
\* its graph has lost.
C9_Witness ==
    /\ Len(stack) >= 2
    /\ InPlus(stack[1])
    /\ stack[2].graph.edges # {}
    /\ \E p \in stack[2].matching : p[1] \notin DOMAIN stack[2].graph.nodes

\* A frame at depth four returns from its second child.
C10_Witness == Len(stack) = 4 /\ Top.pos = "minus"

====
